---- MODULE Spec2Model ----
(***************************************************************************)
(* A model of nltk/ccg/lexicon.py: the CCG lexicon reader (fromstring and  *)
(* the recursive-descent category parser) and the CCGLexicon container.    *)
(*                                                                         *)
(* Strings are sequences of one-character strings, so that the regular     *)
(* expressions and the slicing of the source are modelled by what they do. *)
(* Python objects live in a heap (a sequence of nodes); an object's        *)
(* identity is its index in the heap, and 0 stands for None.               *)
(***************************************************************************)
EXTENDS Naturals, Sequences, FiniteSets, TLC

VARIABLES
    mode,        \* which entry point is exercised: "fn", "build" or "parse"
    \* --- fromstring / CCGLexicon ---
    src,         \* the lines of lex_str consumed so far (history)
    primitives,  \* fromstring's `primitives` list
    families,    \* fromstring's `families` dict: name -> [cat, var]
    entries,     \* fromstring's `entries` defaultdict, in insertion order
    heap,        \* the objects created so far (categories and variables)
    status,      \* "building", "built" or "failed"
    error,       \* the exception that ended the build ("" when none)
    start,       \* CCGLexicon._start (0 before construction)
    last,        \* what the last line did (history)
    built,       \* the lexicon's entries and rendering when fromstring returned (history)
    ret,         \* the last call's return value
    \* --- the parser as a pure function ---
    inp,         \* the input string of the call
    items,       \* the term/operator structure inp was written from (history)
    out,         \* the call's result
    \* --- the parser as a machine of frames ---
    stack,       \* call stack of matchBrackets/augParseCategory frames
    retval       \* value returned by the frame that finished last, or the exception

vars == <<mode, src, primitives, families, entries, heap, status, error, start,
          last, built, ret, inp, items, out, stack, retval>>

----------------------------------------------------------------------------
(* Strings *)

Letters == {"A", "B", "C", "S", "N", "P", "F", "G", "X", "a", "b", "z",
            "v", "r", "s", "g", "p", "l"}

\* \w of LEX_RE: letters, digits, underscore
WordChars == Letters \cup {"0", "1", "_"}

\* [A-Za-z,] of PRIM_RE and NEXTPRIM_RE
SubscrChars == Letters \cup {","}

\* \s, and what strip() removes
Spaces == {" ", "\t"}

IsSpace(c) == c \in Spaces

\* the value of a group that did not take part in a match
None == <<"None">>

\* s[i:] for 0-based i
From(s, i) == SubSeq(s, i + 1, Len(s))

\* s.startswith(p)
StartsWith(s, p) == Len(s) >= Len(p) /\ SubSeq(s, 1, Len(p)) = p

RECURSIVE RunLen(_, _, _)
\* length of the longest run of characters satisfying Ok (given as a set) from 1-based position i
RunLen(s, i, Ok) ==
    IF i <= Len(s) /\ s[i] \in Ok THEN 1 + RunLen(s, i + 1, Ok) ELSE 0

RECURSIVE Split(_, _)
\* s.split(sep) for a one-character separator
Split(s, sep) ==
    IF \E i \in 1..Len(s) : s[i] = sep
    THEN LET i == CHOOSE k \in 1..Len(s) : s[k] = sep /\ \A j \in 1..(k - 1) : s[j] # sep
         IN  <<SubSeq(s, 1, i - 1)>> \o Split(From(s, i), sep)
    ELSE <<s>>

\* s.strip()
Strip(s) ==
    IF \A i \in 1..Len(s) : IsSpace(s[i]) THEN <<>>
    ELSE LET a == CHOOSE k \in 1..Len(s) : ~IsSpace(s[k]) /\ \A j \in 1..(k - 1) : IsSpace(s[j])
             b == CHOOSE k \in 1..Len(s) : ~IsSpace(s[k]) /\ \A j \in (k + 1)..Len(s) : IsSpace(s[j])
         IN  SubSeq(s, a, b)

\* x in list
InSeq(x, list) == \E i \in 1..Len(list) : list[i] = x

----------------------------------------------------------------------------
(* Regular expressions *)

\* length of the match of (?:\[[A-Za-z,]+\])? at 1-based position i (0: the group is absent)
SubscrLen(s, i) ==
    IF i <= Len(s) /\ s[i] = "["
    THEN LET n == RunLen(s, i + 1, SubscrChars)
         IN  IF n >= 1 /\ i + 1 + n <= Len(s) /\ s[i + 1 + n] = "]" THEN n + 2 ELSE 0
    ELSE 0

\* PRIM_RE.match(s): the groups (name, subscript), or matched = FALSE for None
PRIM_RE(s) ==
    LET n == RunLen(s, 1, Letters)
        k == SubscrLen(s, n + 1)
    IN  IF n = 0 THEN [matched |-> FALSE, groups |-> <<>>]
        ELSE [matched |-> TRUE,
              groups |-> <<SubSeq(s, 1, n),
                           IF k = 0 THEN None ELSE SubSeq(s, n + 1, n + k)>>]

\* NEXTPRIM_RE.match(s): the groups (primitive with subscript, remainder)
NEXTPRIM_RE(s) ==
    LET n == RunLen(s, 1, Letters)
        k == SubscrLen(s, n + 1)
    IN  IF n = 0 THEN [matched |-> FALSE, groups |-> <<>>]
        ELSE [matched |-> TRUE,
              groups |-> <<SubSeq(s, 1, n + k), From(s, n + k)>>]

\* APP_RE.match(s): the groups (slash, modifier, modifier, remainder)
APP_RE(s) ==
    IF s = <<>> \/ Head(s) \notin {"/", "\\"}
    THEN [matched |-> FALSE, groups |-> <<>>]
    ELSE LET m1 == IF Len(s) >= 2 /\ s[2] \in {".", ","} THEN 1 ELSE 0
             m2 == IF Len(s) >= 2 + m1 /\ s[2 + m1] \in {".", ","} THEN 1 ELSE 0
         IN  [matched |-> TRUE,
              groups |-> <<SubSeq(s, 1, 1), SubSeq(s, 2, 1 + m1),
                           SubSeq(s, 2 + m1, 1 + m1 + m2), From(s, 1 + m1 + m2)>>]

\* COMMENTS_RE.match(line).groups()[0]
COMMENTS_RE(line) == SubSeq(line, 1, RunLen(line, 1, {c \in {line[i] : i \in 1..Len(line)} : c # "#"}))

\* the match of (::|[-=]+>) at the head of s: its length, 0 for no match
SepLen(s) ==
    IF StartsWith(s, <<":", ":">>) THEN 2
    ELSE LET n == RunLen(s, 1, {"-", "="})
         IN  IF n >= 1 /\ n + 1 <= Len(s) /\ s[n + 1] = ">" THEN n + 1 ELSE 0

\* LEX_RE.match(line): the groups (ident, sep, catstr)
LEX_RE(line) ==
    LET n  == RunLen(line, 1, WordChars)
        w1 == RunLen(line, n + 1, Spaces)
        k  == SepLen(From(line, n + w1))
        w2 == RunLen(line, n + w1 + k + 1, Spaces)
        r  == From(line, n + w1 + k + w2)
    IN  IF n = 0 \/ k = 0 \/ From(line, n + w1 + k) = <<>>
        THEN [matched |-> FALSE, groups |-> <<>>]
        ELSE [matched |-> TRUE,
              groups |-> <<SubSeq(line, 1, n),
                           SubSeq(line, n + w1 + 1, n + w1 + k),
                           \* \s* gives a character back when nothing else is left for (.+)
                           IF r = <<>> THEN From(line, n + w1 + k + w2 - 1) ELSE r>>]

----------------------------------------------------------------------------
(* nltk.ccg.api: the category objects *)

NoDir == [slash |-> <<>>, mods |-> <<>>]

\* Direction(dir, restrictions)
Direction(dir, restrictions) == [slash |-> dir, mods |-> restrictions]

\* CCGVar(): a new variable object
CCGVar(h) ==
    [heap |-> Append(h, [k |-> "var", name |-> <<>>, subs |-> <<>>,
                         res |-> 0, arg |-> 0, dir |-> NoDir]),
     ref |-> Len(h) + 1]

\* PrimitiveCategory(categ, restrictions): a new primitive category object
PrimitiveCategory(h, categ, restrictions) ==
    [heap |-> Append(h, [k |-> "prim", name |-> categ, subs |-> restrictions,
                         res |-> 0, arg |-> 0, dir |-> NoDir]),
     ref |-> Len(h) + 1]

\* FunctionalCategory(res, arg, dir): a new functional category object
FunctionalCategory(h, res, arg, dir) ==
    [heap |-> Append(h, [k |-> "func", name |-> <<>>, subs |-> <<>>,
                         res |-> res, arg |-> arg, dir |-> dir]),
     ref |-> Len(h) + 1]

RECURSIVE substitute(_, _, _, _)
\* cat.substitute([(cvar, var)]): a copy of the tree at c with every occurrence of
\* the variable cvar replaced by var; the tree at c is left as it is
substitute(h, c, cvar, var) ==
    IF h[c].k = "var" THEN [heap |-> h, ref |-> IF c = cvar THEN var ELSE c]
    ELSE IF h[c].k = "prim" THEN PrimitiveCategory(h, h[c].name, h[c].subs)
    ELSE LET r == substitute(h, h[c].res, cvar, var)
             a == substitute(r.heap, h[c].arg, cvar, var)
         IN  FunctionalCategory(a.heap, r.ref, a.ref, h[c].dir)

RECURSIVE Tree(_, _)
\* the tree below object c, by value: its variables keep their identity, its
\* category nodes do not
Tree(h, c) ==
    IF h[c].k = "var" THEN <<"var", c>>
    ELSE IF h[c].k = "prim" THEN <<"prim", h[c].name, h[c].subs>>
    ELSE <<"func", Tree(h, h[c].res), h[c].dir, Tree(h, h[c].arg)>>

RECURSIVE VarsOf(_, _)
\* the variable objects in the tree below object c
VarsOf(h, c) ==
    IF h[c].k = "var" THEN {c}
    ELSE IF h[c].k = "prim" THEN {}
    ELSE VarsOf(h, h[c].res) \cup VarsOf(h, h[c].arg)

RECURSIVE NodesOf(_, _)
\* the objects of the tree below object c
NodesOf(h, c) ==
    IF h[c].k = "func" THEN {c} \cup NodesOf(h, h[c].res) \cup NodesOf(h, h[c].arg)
    ELSE {c}

----------------------------------------------------------------------------
(* Parsing lexicons *)

UnmatchedBracket == "AssertionError: Unmatched bracket"
UnknownName      == "AssertionError: neither a family nor primitive category"
NoMatch          == "AttributeError: 'NoneType' object has no attribute 'groups'"
NoPrimitives     == "IndexError: list index out of range"

RECURSIVE matchBracketsLoopFlat(_, _)
\* matchBracketsLoop with a bug: a nested "(" is taken as an ordinary character, so
\* the scan stops at the first ")" whatever the nesting
matchBracketsLoopFlat(inside, rest) ==
    IF rest # <<>> /\ ~StartsWith(rest, <<")">>)
    THEN matchBracketsLoopFlat(inside \o <<rest[1]>>, From(rest, 1))
    ELSE [ok |-> TRUE, err |-> "", inside |-> inside, rest |-> rest]

RECURSIVE matchBrackets(_), matchBracketsLoop(_, _)

\* the while loop of matchBrackets, from the state (inside, rest)
matchBracketsLoop(inside, rest) ==
    IF rest # <<>> /\ ~StartsWith(rest, <<")">>)
    THEN IF StartsWith(rest, <<"(">>)
         THEN LET m == matchBrackets(rest)
              IN  IF m.ok THEN matchBracketsLoop(inside \o m.inside, m.rest) ELSE m
         ELSE matchBracketsLoop(inside \o <<rest[1]>>, From(rest, 1))
    ELSE [ok |-> TRUE, err |-> "", inside |-> inside, rest |-> rest]

matchBrackets(string) ==
    LET l == matchBracketsLoop(<<"(">>, From(string, 1))
    IN  IF ~l.ok THEN l
        ELSE IF StartsWith(l.rest, <<")">>)
        THEN [ok |-> TRUE, err |-> "", inside |-> l.inside \o <<")">>, rest |-> From(l.rest, 1)]
        ELSE [ok |-> FALSE, err |-> UnmatchedBracket, inside |-> <<>>, rest |-> <<>>]

\* (cat_string, rest), or the exception
nextCategory(string) ==
    IF StartsWith(string, <<"(">>) THEN matchBrackets(string)
    ELSE LET m == NEXTPRIM_RE(string)
         IN  IF m.matched
             THEN [ok |-> TRUE, err |-> "", inside |-> m.groups[1], rest |-> m.groups[2]]
             ELSE [ok |-> FALSE, err |-> NoMatch, inside |-> <<>>, rest |-> <<>>]

parseApplication(app) == Direction(app[1], From(app, 1))

parseSubscripts(subscr) ==
    IF subscr # None /\ subscr # <<>>
    THEN Split(SubSeq(subscr, 2, Len(subscr) - 1), ",")
    ELSE <<>>

\* what the parsing functions return: (cat, var) and the heap it left, or the exception;
\* log lists the binding after each call of parsePrimitiveCategory (history)
Parsed(cat, var, h, log) ==
    [ok |-> TRUE, err |-> "", cat |-> cat, var |-> var, heap |-> h, log |-> log]

Raised(err, h, log) ==
    [ok |-> FALSE, err |-> err, cat |-> 0, var |-> 0, heap |-> h, log |-> log]

\* parsePrimitiveCategory with a bug: a family used while no variable is bound is
\* copied, as it is when one is bound
parsePrimitiveCategoryCopies(chunks, prims, fams, var, h) ==
    IF chunks[1] = <<"v", "a", "r">> /\ chunks[2] = None
    THEN LET v == IF var = 0 THEN CCGVar(h) ELSE [heap |-> h, ref |-> var]
         IN  Parsed(v.ref, v.ref, v.heap, <<v.ref>>)
    ELSE LET catstr == chunks[1] IN
         IF catstr \in DOMAIN fams
         THEN LET cat  == fams[catstr].cat
                  cvar == fams[catstr].var
                  bind == IF var = 0 THEN cvar ELSE var
                  s    == substitute(h, cat, cvar, bind)
              IN  Parsed(s.ref, bind, s.heap, <<bind>>)
         ELSE IF InSeq(catstr, prims)
         THEN LET p == PrimitiveCategory(h, catstr, parseSubscripts(chunks[2]))
              IN  Parsed(p.ref, var, p.heap, <<var>>)
         ELSE Raised(UnknownName, h, <<>>)

\* parsePrimitiveCategory with a bug: a family used while a variable is bound keeps
\* its own variable
parsePrimitiveCategoryKeepsVar(chunks, prims, fams, var, h) ==
    IF chunks[1] = <<"v", "a", "r">> /\ chunks[2] = None
    THEN LET v == IF var = 0 THEN CCGVar(h) ELSE [heap |-> h, ref |-> var]
         IN  Parsed(v.ref, v.ref, v.heap, <<v.ref>>)
    ELSE LET catstr == chunks[1] IN
         IF catstr \in DOMAIN fams
         THEN LET cat  == fams[catstr].cat
                  cvar == fams[catstr].var
              IN  IF var = 0 THEN Parsed(cat, cvar, h, <<cvar>>)
                  ELSE Parsed(cat, var, h, <<var>>)
         ELSE IF InSeq(catstr, prims)
         THEN LET p == PrimitiveCategory(h, catstr, parseSubscripts(chunks[2]))
              IN  Parsed(p.ref, var, p.heap, <<var>>)
         ELSE Raised(UnknownName, h, <<>>)

\* parsePrimitiveCategory with a bug: a name that is neither a family nor a
\* primitive is taken for a primitive
parsePrimitiveCategoryLenient(chunks, prims, fams, var, h) ==
    IF chunks[1] = <<"v", "a", "r">> /\ chunks[2] = None
    THEN LET v == IF var = 0 THEN CCGVar(h) ELSE [heap |-> h, ref |-> var]
         IN  Parsed(v.ref, v.ref, v.heap, <<v.ref>>)
    ELSE LET catstr == chunks[1] IN
         IF catstr \in DOMAIN fams
         THEN LET cat  == fams[catstr].cat
                  cvar == fams[catstr].var
              IN  IF var = 0 THEN Parsed(cat, cvar, h, <<cvar>>)
                  ELSE LET s == substitute(h, cat, cvar, var)
                       IN  Parsed(s.ref, var, s.heap, <<var>>)
         ELSE LET p == PrimitiveCategory(h, catstr, parseSubscripts(chunks[2]))
              IN  Parsed(p.ref, var, p.heap, <<var>>)

parsePrimitiveCategory(chunks, prims, fams, var, h) ==
    IF chunks[1] = <<"v", "a", "r">> /\ chunks[2] = None
    THEN LET v == IF var = 0 THEN CCGVar(h) ELSE [heap |-> h, ref |-> var]
         IN  Parsed(v.ref, v.ref, v.heap, <<v.ref>>)
    ELSE LET catstr == chunks[1] IN
         IF catstr \in DOMAIN fams
         THEN LET cat  == fams[catstr].cat
                  cvar == fams[catstr].var
              IN  IF var = 0 THEN Parsed(cat, cvar, h, <<cvar>>)
                  ELSE LET s == substitute(h, cat, cvar, var)
                       IN  Parsed(s.ref, var, s.heap, <<var>>)
         ELSE IF InSeq(catstr, prims)
         THEN LET p == PrimitiveCategory(h, catstr, parseSubscripts(chunks[2]))
              IN  Parsed(p.ref, var, p.heap, <<var>>)
         ELSE Raised(UnknownName, h, <<>>)

RECURSIVE augParseCategory(_, _, _, _, _)

\* lines 185-192 and 200-205: the category of one term
parseTerm(cat_string, prims, fams, var, h) ==
    IF StartsWith(cat_string, <<"(">>)
    THEN augParseCategory(SubSeq(cat_string, 2, Len(cat_string) - 1), prims, fams, var, h)
    ELSE parsePrimitiveCategory(PRIM_RE(cat_string).groups, prims, fams, var, h)

RECURSIVE augParseLoopSwapped(_, _, _, _, _, _, _)
\* augParseLoop with a bug: result and argument change places in the category built
augParseLoopSwapped(res, var, rest, prims, fams, h, log) ==
    IF rest = <<>> THEN Parsed(res, var, h, log)
    ELSE LET app == APP_RE(rest) IN
         IF ~app.matched THEN Raised(NoMatch, h, log)
         ELSE LET direction == parseApplication(SubSeq(app.groups, 1, 3))
                  nc == nextCategory(app.groups[4])
              IN  IF ~nc.ok THEN Raised(nc.err, h, log)
                  ELSE LET t == parseTerm(nc.inside, prims, fams, var, h) IN
                       IF ~t.ok THEN Raised(t.err, t.heap, log \o t.log)
                       ELSE LET f == FunctionalCategory(t.heap, t.cat, res, direction)
                            IN  augParseLoopSwapped(f.ref, t.var, nc.rest, prims, fams,
                                                    f.heap, log \o t.log)

RECURSIVE augParseLoop(_, _, _, _, _, _, _)
\* the while loop of augParseCategory, from the state (res, var, rest)
augParseLoop(res, var, rest, prims, fams, h, log) ==
    IF rest = <<>> THEN Parsed(res, var, h, log)
    ELSE LET app == APP_RE(rest) IN
         IF ~app.matched THEN Raised(NoMatch, h, log)
         ELSE LET direction == parseApplication(SubSeq(app.groups, 1, 3))
                  nc == nextCategory(app.groups[4])
              IN  IF ~nc.ok THEN Raised(nc.err, h, log)
                  ELSE LET t == parseTerm(nc.inside, prims, fams, var, h) IN
                       IF ~t.ok THEN Raised(t.err, t.heap, log \o t.log)
                       ELSE LET f == FunctionalCategory(t.heap, res, t.cat, direction)
                            IN  augParseLoop(f.ref, t.var, nc.rest, prims, fams,
                                             f.heap, log \o t.log)

augParseCategory(line, prims, fams, var, h) ==
    LET nc == nextCategory(line) IN
    IF ~nc.ok THEN Raised(nc.err, h, <<>>)
    ELSE LET t == parseTerm(nc.inside, prims, fams, var, h) IN
         IF ~t.ok THEN t
         ELSE augParseLoop(t.cat, t.var, nc.rest, prims, fams, t.heap, t.log)

\* parseCategory: drop the `var` from the tuple
parseCategory(line, prims, fams, h) ==
    LET p == augParseCategory(line, prims, fams, 0, h)
    IN  [ok |-> p.ok, err |-> p.err, cat |-> p.cat, heap |-> p.heap]

----------------------------------------------------------------------------
(* The variables of each entry point, and their values while it is not in use *)

buildVars == <<src, primitives, families, entries, heap, status, error, start,
               last, built, ret>>
fnVars    == <<inp, items, out>>
machVars  == <<stack, retval>>

NoLast  == [kind |-> "", ident |-> <<>>, catstr |-> <<>>, cat |-> 0, var |-> 0, log |-> <<>>]
NoBuilt == [entries |-> <<>>, str |-> <<>>]
NoRet   == [op |-> "", word |-> <<>>, ok |-> TRUE, val |-> <<>>]
NoItems == [terms |-> <<>>, ops |-> <<>>]
NoOut   == [fn |-> "", ok |-> FALSE, err |-> "", inside |-> <<>>, rest |-> <<>>,
            cat |-> 0, var |-> 0, heap |-> <<>>]

BuildIdle ==
    /\ src = <<>> /\ primitives = <<>> /\ families = <<>> /\ entries = <<>>
    /\ heap = <<>> /\ status = "" /\ error = "" /\ start = 0
    /\ last = NoLast /\ built = NoBuilt /\ ret = NoRet

FnIdle   == inp = <<>> /\ items = NoItems /\ out = NoOut

MachIdle == stack = <<>> /\ retval = NoOut

----------------------------------------------------------------------------
(* fromstring: one step per line of lex_str, then the construction of the lexicon *)

\* most lines in a source
MaxLines == 4

\* the lines a source is made of
Lines == {
    \* :- S,N
    <<":", "-", " ", "S", ",", "N">>,
    \* :- P, S  # more
    <<":", "-", " ", "P", ",", " ", "S", " ", " ", "#", " ", "m", "o", "r", "e">>,
    \* F :: S/var
    <<"F", " ", ":", ":", " ", "S", "/", "v", "a", "r">>,
    \* a => F
    <<"a", " ", "=", ">", " ", "F">>,
    \* b => F
    <<"b", " ", "=", ">", " ", "F">>,
    \* b => (var/F)\var
    <<"b", " ", "=", ">", " ", "(", "v", "a", "r", "/", "F", ")", "\\", "v", "a", "r">>,
    \* a => P[sg]/S
    <<"a", " ", "=", ">", " ", "P", "[", "s", "g", "]", "/", "S">>,
    \*   # note
    <<" ", " ", "#", " ", "n", "o", "t", "e">>,
    \* a => (N
    <<"a", " ", "=", ">", " ", "(", "N">>,
    \* a ## N
    <<"a", " ", "#", "#", " ", "N">>
    }

\* the words looked up in a built lexicon; z has no entry in any source
Words == { <<"a">>, <<"z">> }

\* line 220: strip comments and leading/trailing whitespace
Stripped(raw) == Strip(COMMENTS_RE(raw))

\* line 228: [prim.strip() for prim in line[2:].strip().split(',')]
DeclaredOn(line) ==
    LET toks == Split(Strip(From(line, 2)), ",")
    IN  [i \in 1..Len(toks) |-> Strip(toks[i])]

\* the position of key in the dict, 0 when it is not a key
KeyIndex(d, key) ==
    IF \E i \in 1..Len(d) : d[i].key = key
    THEN CHOOSE i \in 1..Len(d) : d[i].key = key
    ELSE 0

\* defaultdict(list).__getitem__: a missing key is inserted with a new empty list
GetItem(d, key) ==
    IF KeyIndex(d, key) = 0
    THEN [dict |-> Append(d, [key |-> key, cats |-> <<>>]), at |-> Len(d) + 1]
    ELSE [dict |-> d, at |-> KeyIndex(d, key)]

\* AppendEntry with a bug: the category is put at the head of the list
AppendEntryFront(d, ident, cat) ==
    LET g == GetItem(d, ident)
    IN  [g.dict EXCEPT ![g.at].cats = <<cat>> \o @]

\* line 240: entries[ident].append(cat)
AppendEntry(d, ident, cat) ==
    LET g == GetItem(d, ident)
    IN  [g.dict EXCEPT ![g.at].cats = Append(@, cat)]

\* line 236: families[ident] = (cat, var)
SetFamily(fams, ident, cat, var) ==
    [n \in DOMAIN fams \cup {ident} |->
        IF n = ident THEN [cat |-> cat, var |-> var] ELSE fams[n]]

BuildInit ==
    /\ mode = "build"
    /\ FnIdle /\ MachIdle
    /\ src = <<>>
    /\ primitives = <<>>
    /\ families = <<>>
    /\ entries = <<>>
    /\ heap = <<>>
    /\ status = "building"
    /\ error = ""
    /\ start = 0
    /\ last = NoLast
    /\ built = NoBuilt
    /\ ret = NoRet

\* the loop may take one more line
MoreLines == mode = "build" /\ status = "building" /\ Len(src) < MaxLines

\* lines 221-222: a blank line, or one that holds only a comment
SkipLine ==
    /\ MoreLines
    /\ \E raw \in Lines :
        /\ Stripped(raw) = <<>>
        /\ src' = Append(src, raw)
        /\ last' = [NoLast EXCEPT !.kind = "skip"]
    /\ UNCHANGED <<mode, primitives, families, entries, heap, status, error, start,
                   built, ret, fnVars, machVars>>

\* DeclLine with a bug: the line's primitives replace those declared before
DeclLineReplaces ==
    /\ MoreLines
    /\ \E raw \in Lines :
        LET line == Stripped(raw) IN
        /\ line # <<>>
        /\ StartsWith(line, <<":", "-">>)
        /\ primitives' = DeclaredOn(line)
        /\ src' = Append(src, raw)
        /\ last' = [NoLast EXCEPT !.kind = "decl"]
    /\ UNCHANGED <<mode, families, entries, heap, status, error, start,
                   built, ret, fnVars, machVars>>

\* lines 224-228: a line of primitive categories
DeclLine ==
    /\ MoreLines
    /\ \E raw \in Lines :
        LET line == Stripped(raw) IN
        /\ line # <<>>
        /\ StartsWith(line, <<":", "-">>)
        /\ primitives' = primitives \o DeclaredOn(line)
        /\ src' = Append(src, raw)
        /\ last' = [NoLast EXCEPT !.kind = "decl"]
    /\ UNCHANGED <<mode, families, entries, heap, status, error, start,
                   built, ret, fnVars, machVars>>

\* the line is a family or word definition that LEX_RE matches
IsDefinition(line) ==
    /\ line # <<>>
    /\ ~StartsWith(line, <<":", "-">>)
    /\ LEX_RE(line).matched

\* lines 231-236: a family definition
FamilyLine ==
    /\ MoreLines
    /\ \E raw \in Lines :
        LET line == Stripped(raw) IN
        /\ IsDefinition(line)
        /\ LET g == LEX_RE(line).groups
               p == augParseCategory(g[3], primitives, families, 0, heap)
           IN  /\ p.ok
               /\ g[2] = <<":", ":">>
               /\ families' = SetFamily(families, g[1], p.cat, p.var)
               /\ heap' = p.heap
               /\ last' = [kind |-> "family", ident |-> g[1], catstr |-> g[3],
                           cat |-> p.cat, var |-> p.var, log |-> p.log]
        /\ src' = Append(src, raw)
    /\ UNCHANGED <<mode, primitives, entries, status, error, start,
                   built, ret, fnVars, machVars>>

\* lines 231-232 and 237-240: a word definition
WordLine ==
    /\ MoreLines
    /\ \E raw \in Lines :
        LET line == Stripped(raw) IN
        /\ IsDefinition(line)
        /\ LET g == LEX_RE(line).groups
               p == augParseCategory(g[3], primitives, families, 0, heap)
           IN  /\ p.ok
               /\ g[2] # <<":", ":">>
               /\ entries' = AppendEntry(entries, g[1], p.cat)
               /\ heap' = p.heap
               /\ last' = [kind |-> "word", ident |-> g[1], catstr |-> g[3],
                           cat |-> p.cat, var |-> p.var, log |-> p.log]
        /\ src' = Append(src, raw)
    /\ UNCHANGED <<mode, primitives, families, status, error, start,
                   built, ret, fnVars, machVars>>

\* lines 231-232: the line raises, and fromstring with it
LineRaises ==
    /\ MoreLines
    /\ \E raw \in Lines :
        LET line == Stripped(raw) IN
        /\ line # <<>>
        /\ ~StartsWith(line, <<":", "-">>)
        /\ IF ~LEX_RE(line).matched
           THEN /\ error' = NoMatch
                /\ last' = [NoLast EXCEPT !.kind = "raise"]
           ELSE LET g == LEX_RE(line).groups
                    p == augParseCategory(g[3], primitives, families, 0, heap)
                IN  /\ ~p.ok
                    /\ error' = p.err
                    /\ last' = [NoLast EXCEPT !.kind = "raise", !.ident = g[1],
                                              !.catstr = g[3], !.log = p.log]
        /\ src' = Append(src, raw)
    /\ status' = "failed"
    /\ UNCHANGED <<mode, primitives, families, entries, heap, start,
                   built, ret, fnVars, machVars>>

RECURSIVE CatStr(_, _)
\* "%s" % cat
CatStr(h, c) ==
    IF h[c].k = "var" THEN <<"_", "v", "a", "r", ToString(c)>>
    ELSE IF h[c].k = "prim"
    THEN h[c].name \o
         (IF h[c].subs = <<>> THEN <<>>
          ELSE <<"[">> \o h[c].subs[1] \o
               (LET rec[i \in 2..(Len(h[c].subs) + 1)] ==
                        IF i > Len(h[c].subs) THEN <<>>
                        ELSE <<",">> \o h[c].subs[i] \o rec[i + 1]
                IN  rec[2]) \o <<"]">>)
    ELSE <<"(">> \o CatStr(h, h[c].res) \o h[c].dir.slash \o h[c].dir.mods[1]
         \o h[c].dir.mods[2] \o CatStr(h, h[c].arg) \o <<")">>

RECURSIVE StrCats(_, _, _, _)
\* lines 84-89: the loop over the categories of one word, from the i-th on
StrCats(h, cats, i, first) ==
    IF i > Len(cats) THEN [string |-> <<>>, first |-> first]
    ELSE LET r == StrCats(h, cats, i + 1, FALSE)
         IN  [string |-> (IF ~first THEN <<" ", "|", " ">> ELSE <<>>) \o CatStr(h, cats[i])
                          \o r.string,
              first |-> r.first]

RECURSIVE StrLoop(_, _, _, _)
\* lines 78-89: the loop over the words, from the i-th on
StrLoop(h, d, i, first) ==
    IF i > Len(d) THEN <<>>
    ELSE LET c == StrCats(h, d[i].cats, 1, TRUE)
         IN  (IF ~first THEN <<"\n">> ELSE <<>>) \o d[i].key \o <<" ", "=", ">", " ">>
             \o c.string \o StrLoop(h, d, i + 1, c.first)

\* CCGLexicon.__str__
Str(h, d) == StrLoop(h, d, 1, TRUE)

\* line 241 and CCGLexicon.__init__: the end of the source is reached
Construct ==
    /\ mode = "build" /\ status = "building"
    /\ primitives # <<>>
    /\ LET s == PrimitiveCategory(heap, primitives[1], <<>>)
       IN  /\ start' = s.ref
           /\ heap' = s.heap
           /\ built' = [entries |-> entries, str |-> Str(s.heap, entries)]
    /\ status' = "built"
    /\ last' = NoLast
    /\ UNCHANGED <<mode, src, primitives, families, entries, error, ret, fnVars, machVars>>

\* line 241: primitives[0] of an empty list
ConstructRaises ==
    /\ mode = "build" /\ status = "building"
    /\ primitives = <<>>
    /\ status' = "failed"
    /\ error' = NoPrimitives
    /\ last' = NoLast
    /\ UNCHANGED <<mode, src, primitives, families, entries, heap, start, built, ret,
                   fnVars, machVars>>

\* categories with a bug: the entries are a plain dict, and a missing key raises
categoriesPlainDict(d, word) ==
    IF KeyIndex(d, word) = 0 THEN [dict |-> d, ok |-> FALSE, val |-> <<>>]
    ELSE [dict |-> d, ok |-> TRUE, val |-> d[KeyIndex(d, word)].cats]

\* CCGLexicon.categories: (the dict after the call, the list returned)
categories(d, word) ==
    LET g == GetItem(d, word)
    IN  [dict |-> g.dict, ok |-> TRUE, val |-> g.dict[g.at].cats]

Categories ==
    /\ mode = "build" /\ status = "built"
    /\ \E word \in Words :
        LET c == categories(entries, word)
        IN  /\ entries' = c.dict
            /\ ret' = [op |-> "categories", word |-> word, ok |-> c.ok, val |-> c.val]
    /\ UNCHANGED <<mode, src, primitives, families, heap, status, error, start, last,
                   built, fnVars, machVars>>

\* CCGLexicon.start
Start ==
    /\ mode = "build" /\ status = "built"
    /\ ret' = [op |-> "start", word |-> <<>>, ok |-> TRUE, val |-> <<start>>]
    /\ UNCHANGED <<mode, src, primitives, families, entries, heap, status, error, start,
                   last, built, fnVars, machVars>>

\* str(lexicon)
Render ==
    /\ mode = "build" /\ status = "built"
    /\ ret' = [op |-> "str", word |-> <<>>, ok |-> TRUE, val |-> Str(heap, entries)]
    /\ UNCHANGED <<mode, src, primitives, families, entries, heap, status, error, start,
                   last, built, fnVars, machVars>>

Next ==
    \/ SkipLine \/ DeclLine \/ FamilyLine \/ WordLine \/ LineRaises
    \/ Construct \/ ConstructRaises
    \/ Categories \/ Start \/ Render

Spec == BuildInit /\ [][Next]_vars

----------------------------------------------------------------------------
(* The source read so far, line by line *)

\* the i-th line of the source is a line of primitive categories
IsDecl(i) == StartsWith(Stripped(src[i]), <<":", "-">>)

\* the i-th line of the source is a family (fam = TRUE) or word definition
IsDef(i, fam) ==
    /\ IsDefinition(Stripped(src[i]))
    /\ (LEX_RE(Stripped(src[i])).groups[2] = <<":", ":">>) <=> fam

IdentOf(i)  == LEX_RE(Stripped(src[i])).groups[1]
CatstrOf(i) == LEX_RE(Stripped(src[i])).groups[3]

\* the list stored for a word, empty when the word is no key
CatsOf(d, word) == IF KeyIndex(d, word) = 0 THEN <<>> ELSE d[KeyIndex(d, word)].cats

\* the words of the source and of the lookups
AllWords == Words \cup {LEX_RE(Stripped(l)).groups[1] : l \in {x \in Lines : IsDefinition(Stripped(x))}}

----------------------------------------------------------------------------
(* C2: reads leave the lexicon as fromstring returned it *)

\* C2: once fromstring has returned, whatever calls of categories(word), start() and
\* str() follow, the word-to-categories mapping (its keys and every list) and the
\* debug rendering are what they were when fromstring returned.
C2_ReadsChangeNothing ==
    (mode = "build" /\ status = "built") =>
        /\ entries = built.entries
        /\ Str(heap, entries) = built.str

----------------------------------------------------------------------------
(* C4: the start category *)

\* the positions of the source's lines of primitive categories
DeclPositions == {i \in 1..Len(src) : IsDecl(i)}

FirstDecl == CHOOSE i \in DeclPositions : \A j \in DeclPositions : i <= j

RECURSIVE DeclaredUpTo(_)
\* the names declared on the first n lines, in order
DeclaredUpTo(n) ==
    IF n = 0 THEN <<>>
    ELSE DeclaredUpTo(n - 1) \o (IF IsDecl(n) THEN DeclaredOn(Stripped(src[n])) ELSE <<>>)

\* C4: the start category of a built lexicon is the primitive named by the first
\* comma-separated token of the source's first `:-` line, however many `:-` lines
\* follow, and the primitive list is the concatenation of all of them in order.
C4_StartIsFirstDeclared ==
    (mode = "build" /\ status = "built") =>
        /\ DeclPositions # {}
        /\ Tree(heap, start) = <<"prim", DeclaredOn(Stripped(src[FirstDecl]))[1], <<>> >>
        /\ primitives = DeclaredUpTo(Len(src))

\* a lexicon built from a source with two `:-` lines that start with different names
C4_Witness_TwoDeclLines ==
    /\ mode = "build" /\ status = "built" /\ ret.op = "start"
    /\ \E i, j \in DeclPositions :
          /\ i < j
          /\ DeclaredOn(Stripped(src[i]))[1] # DeclaredOn(Stripped(src[j]))[1]
          /\ heap[ret.val[1]].name = DeclaredOn(Stripped(src[i]))[1]

----------------------------------------------------------------------------
(* C5: categories(word) *)

\* the positions of the source's word lines for a word
WordPositions(word) == {i \in 1..Len(src) : IsDef(i, FALSE) /\ IdentOf(i) = word}

\* C5: categories(word) on a built lexicon never fails; for a word with no word line
\* in the source it returns an empty sequence, for a word with entries the stored list.
C5_CategoriesNeverFails ==
    (mode = "build" /\ status = "built" /\ ret.op = "categories") =>
        /\ ret.ok
        /\ (WordPositions(ret.word) = {}) => ret.val = <<>>
        /\ (WordPositions(ret.word) # {}) =>
              /\ ret.val # <<>>
              /\ ret.val = CatsOf(built.entries, ret.word)

\* a word without entries and then a word with entries have been looked up
C5_Witness_UnseenWord ==
    /\ mode = "build" /\ status = "built" /\ ret.op = "categories"
    /\ KeyIndex(entries, <<"z">>) # 0
    /\ WordPositions(ret.word) # {}
    /\ Len(ret.val) = 2

----------------------------------------------------------------------------
(* C6: word entries accumulate in source order *)

\* the line read by the step, stripped
NewLine == Stripped(src'[Len(src')])

\* C6, one step: a word line for w appends the newly parsed category to the list of
\* w and leaves the lists of all other words, and the family table, as they were
C6_Step ==
    (mode = "build" /\ status = "building" /\ status' = "building" /\ src' # src
        /\ IsDefinition(NewLine) /\ LEX_RE(NewLine).groups[2] # <<":", ":">>) =>
        LET w == LEX_RE(NewLine).groups[1] IN
        /\ last'.kind = "word" /\ last'.ident = w
        /\ last'.cat \in 1..Len(heap')
        /\ CatsOf(entries', w) = Append(CatsOf(entries, w), last'.cat)
        /\ \A x \in AllWords \ {w} : CatsOf(entries', x) = CatsOf(entries, x)
        /\ {entries'[i].key : i \in 1..Len(entries')} = {entries[i].key : i \in 1..Len(entries)} \cup {w}
        /\ families' = families

\* C6, the result: the list of w has one element per word line for w
C6_Count ==
    (mode = "build" /\ status \in {"building", "built"}) =>
        \A w \in AllWords : Len(CatsOf(entries, w)) = Cardinality(WordPositions(w))

\* C6: word entries accumulate in source order: each word line for w appends its
\* category at the end of the list of w and changes no other list nor the family
\* table, so that categories(w) has one element per word line for w, in line order.
C6_EntriesAccumulate == [][C6_Step]_vars /\ []C6_Count

\* a second category has been appended for a word, with a family defined
C6_Witness_SecondEntry ==
    /\ mode = "build" /\ status = "building" /\ last.kind = "word"
    /\ Len(CatsOf(entries, last.ident)) = 2
    /\ CatsOf(entries, last.ident)[2] = last.cat
    /\ families # <<>>

----------------------------------------------------------------------------
(* C7: names are resolved at the point of use *)

RECURSIVE CloseScan(_, _, _)
\* the first position from i on at which the nesting depth, d before i, is back at 0;
\* 0 when there is none
CloseScan(s, i, d) ==
    IF i > Len(s) THEN 0
    ELSE LET e == IF s[i] = "(" THEN d + 1 ELSE IF s[i] = ")" THEN d - 1 ELSE d
         IN  IF e = 0 THEN i ELSE CloseScan(s, i + 1, e)

\* the position of the ")" that closes the "(" at position 1, 0 when there is none
Closer(s) == CloseScan(s, 1, 0)

RECURSIVE WellFormed(_)
\* the length of the term at the head of s, 0 when there is none
TermLen(s) ==
    IF s = <<>> THEN 0
    ELSE IF s[1] = "("
    THEN IF Closer(s) # 0 /\ WellFormed(SubSeq(s, 2, Closer(s) - 1)) THEN Closer(s) ELSE 0
    ELSE LET n == RunLen(s, 1, Letters)
         IN  IF n = 0 THEN 0 ELSE n + SubscrLen(s, n + 1)

\* the length of the application operator at the head of s, 0 when there is none
OpLen(s) ==
    IF s # <<>> /\ s[1] \in {"/", "\\"}
    THEN 1 + RunLen(SubSeq(s, 2, IF Len(s) < 3 THEN Len(s) ELSE 3), 1, {".", ","})
    ELSE 0

\* s is a category string: term (operator term)*
WellFormed(s) ==
    LET t == TermLen(s)
        r == From(s, t)
    IN  /\ t > 0
        /\ \/ r = <<>>
           \/ OpLen(r) > 0 /\ WellFormed(From(r, OpLen(r)))

\* position i of s lies inside a subscript
InSubscript(s, i) == \E j \in 1..i : s[j] = "[" /\ \A k \in j..i : s[k] # "]"

\* the bare names a category string refers to
BareNames(s) ==
    {SubSeq(s, i, i + RunLen(s, i, Letters) - 1) :
        i \in {k \in 1..Len(s) : /\ s[k] \in Letters
                                  /\ (k = 1 \/ s[k - 1] \notin Letters)
                                  /\ ~InSubscript(s, k)}}

\* the names of s, other than `var`, that are neither primitives nor families
UnknownNames(s, prims, fams) ==
    {n \in BareNames(s) : n # <<"v", "a", "r">> /\ n \notin DOMAIN fams /\ ~InSeq(n, prims)}

\* C7, one step: a family or word line that uses a name unknown so far ends the build
C7_Step ==
    (mode = "build" /\ status = "building" /\ src' # src /\ IsDefinition(NewLine)
        /\ UnknownNames(LEX_RE(NewLine).groups[3], primitives, families) # {}) =>
        /\ status' = "failed"
        /\ WellFormed(LEX_RE(NewLine).groups[3]) => error' = UnknownName
        /\ start' = 0 /\ built' = NoBuilt

\* C7, the result: a failed build returns no lexicon
C7_Failed ==
    (mode = "build" /\ status = "failed") =>
        start = 0 /\ built = NoBuilt /\ ret = NoRet

----------------------------------------------------------------------------
(* C3: two uses of one family *)

\* the lines that define family f, and the word lines whose whole category is f
FamilyDefs(f) == {i \in 1..Len(src) : IsDef(i, TRUE) /\ IdentOf(i) = f}
BareUses(f)   == {i \in 1..Len(src) : IsDef(i, FALSE) /\ CatstrOf(i) = f}

\* the category stored by word line i
StoredBy(i) ==
    CatsOf(entries, IdentOf(i))[Cardinality({j \in WordPositions(IdentOf(i)) : j <= i})]

\* word lines i and k, for different words, both use f, which is defined once, before them
TwoUses(f, i, k) ==
    /\ mode = "build" /\ status \in {"building", "built"}
    /\ f # <<"v", "a", "r">>
    /\ i # k
    /\ IdentOf(i) # IdentOf(k)
    /\ Cardinality(FamilyDefs(f)) = 1
    /\ \A d \in FamilyDefs(f) : d < i /\ d < k

\* C3 as stated: two uses of the same family in different word entries yield distinct,
\* non-aliased trees, neither of them the family's stored template, and they share no
\* UnificationVariable.
C3_AsStated ==
    \A f \in DOMAIN families : \A i, k \in BareUses(f) :
        TwoUses(f, i, k) =>
            /\ StoredBy(i) # StoredBy(k)
            /\ StoredBy(i) # families[f].cat /\ StoredBy(k) # families[f].cat
            /\ NodesOf(heap, StoredBy(i)) \cap NodesOf(heap, StoredBy(k)) = {}
            /\ VarsOf(heap, StoredBy(i)) \cap VarsOf(heap, StoredBy(k)) = {}

\* C3 as amended: word lines `a => F` and `b => F` both store the family's template
\* object itself: the two categories are one tree object, and when the family has a
\* UnificationVariable both contain that very variable.
C3_UsesShareTemplate ==
    \A f \in DOMAIN families : \A i, k \in BareUses(f) :
        TwoUses(f, i, k) =>
            /\ StoredBy(i) = families[f].cat
            /\ StoredBy(k) = families[f].cat
            /\ VarsOf(heap, StoredBy(i)) = {families[f].var} \ {0}
            /\ VarsOf(heap, StoredBy(k)) = {families[f].var} \ {0}

\* a family with a variable has been used by two words
C3_Witness_TwoUses ==
    \E f \in DOMAIN families : \E i, k \in BareUses(f) :
        /\ TwoUses(f, i, k)
        /\ families[f].var # 0
        /\ status = "built"

----------------------------------------------------------------------------
(* C9: one variable per category string *)

\* once bound, the binding is never replaced
BoundOnce(log) ==
    \A i, j \in 1..Len(log) : (i < j /\ log[i] # 0) => log[j] = log[i]

\* the tree at c holds no variable but v
OnlyVar(c, v) == VarsOf(heap, c) \subseteq {v} \ {0}

\* C9: within one category string the binding, once non-null, is never replaced, and
\* the category returned holds at most one UnificationVariable, the returned binding:
\* every `var` resolves to it and every family expanded after it is bound has its
\* stored variable replaced by it. This holds for every family and word category
\* after any sequence of lines.
C9_OneVariable ==
    (mode = "build") =>
        /\ BoundOnce(last.log)
        /\ last.kind \in {"family", "word"} =>
              /\ OnlyVar(last.cat, last.var)
              /\ last.log # <<>> /\ last.log[Len(last.log)] = last.var
        /\ \A f \in DOMAIN families : OnlyVar(families[f].cat, families[f].var)
        /\ \A i \in 1..Len(entries) : \A j \in 1..Len(entries[i].cats) :
              Cardinality(VarsOf(heap, entries[i].cats[j])) <= 1

\* a category with two `var` and a family expanded after the variable was bound,
\* the family's own variable being another one
C9_Witness_Substituted ==
    /\ mode = "build" /\ last.kind = "word"
    /\ Len(last.log) = 3 /\ last.log[1] # 0
    /\ <<"F">> \in DOMAIN families /\ families[<<"F">>].var \notin {0, last.var}
    /\ VarsOf(heap, last.cat) = {last.var}

----------------------------------------------------------------------------
(* The parser's functions applied to bounded inputs *)

\* longest string given to matchBrackets
MaxStrLen == 6

\* most terms in a chain given to augParseCategory
MaxTerms == 3

BracketAlphabet == {"(", ")", "A"}

\* every string of at most MaxStrLen characters that starts with "("
BracketInputs ==
    {s \in UNION {[1..n -> BracketAlphabet] : n \in 1..MaxStrLen} : s[1] = "("}

\* the primitives declared for the chains
FnPrimitives == << <<"A">>, <<"B">>, <<"C">> >>

Ops == { <<"/">>, <<"\\", ".">> }

Atoms == {[g |-> FALSE, a |-> FnPrimitives[i], op |-> <<>>, b |-> <<>>] : i \in 1..3}

\* a parenthesized application of one primitive to another
Groups == {[g |-> TRUE, a |-> <<"B">>, op |-> o, b |-> <<"C">>] : o \in Ops}

\* t0 op1 t1 ... opn tn, each term a primitive or a parenthesized group
Chains ==
    UNION {{[terms |-> ts, ops |-> os] : ts \in [1..n -> Atoms \cup Groups],
                                         os \in [1..(n - 1) -> Ops]} : n \in 1..MaxTerms}

TermText(t) == IF t.g THEN <<"(">> \o t.a \o t.op \o t.b \o <<")">> ELSE t.a

RECURSIVE ChainText(_, _)
\* the category string a chain is written as, from its n-th term on
ChainText(c, n) ==
    IF n = Len(c.terms) THEN TermText(c.terms[n])
    ELSE TermText(c.terms[n]) \o c.ops[n] \o ChainText(c, n + 1)

FnInit ==
    /\ mode = "fn"
    /\ BuildIdle /\ MachIdle
    /\ out = NoOut
    /\ \/ inp \in BracketInputs /\ items = NoItems
       \/ \E c \in Chains : items = c /\ inp = ChainText(c, 1)

CallMatchBrackets ==
    /\ mode = "fn" /\ out = NoOut
    /\ StartsWith(inp, <<"(">>)
    /\ LET m == matchBrackets(inp)
       IN  out' = [NoOut EXCEPT !.fn = "matchBrackets", !.ok = m.ok, !.err = m.err,
                                !.inside = m.inside, !.rest = m.rest]
    /\ UNCHANGED <<mode, buildVars, inp, items, machVars>>

CallAugParseCategory ==
    /\ mode = "fn" /\ out = NoOut
    /\ LET p == augParseCategory(inp, FnPrimitives, <<>>, 0, <<>>)
       IN  out' = [NoOut EXCEPT !.fn = "augParseCategory", !.ok = p.ok, !.err = p.err,
                                !.cat = p.cat, !.var = p.var, !.heap = p.heap]
    /\ UNCHANGED <<mode, buildVars, inp, items, machVars>>

FnNext == CallMatchBrackets \/ CallAugParseCategory

SpecFn == FnInit /\ [][FnNext]_vars

----------------------------------------------------------------------------
(* C8: matchBrackets against matching by nesting depth *)

\* C8: for every string that starts with "(", matchBrackets returns the prefix up to
\* the ")" that matches the first "(" by nesting depth, and everything after it, the
\* two making up the string; with no matching ")" it raises the unmatched-bracket
\* error and returns nothing.
C8_MatchBrackets ==
    (mode = "fn" /\ out.fn = "matchBrackets") =>
        IF Closer(inp) # 0
        THEN /\ out.ok
             /\ out.inside = SubSeq(inp, 1, Closer(inp))
             /\ out.rest = From(inp, Closer(inp))
             /\ out.inside \o out.rest = inp
        ELSE ~out.ok /\ out.err = UnmatchedBracket /\ out.inside = <<>> /\ out.rest = <<>>

\* a nested group is matched and a remainder is left
C8_Witness_Matched ==
    /\ mode = "fn" /\ out.fn = "matchBrackets" /\ out.ok
    /\ \E i \in 2..Len(out.inside) : out.inside[i] = "("
    /\ out.rest # <<>>

----------------------------------------------------------------------------
(* C1: application is left-associative *)

ExpDirection(op) ==
    [slash |-> <<op[1]>>,
     mods  |-> <<IF Len(op) >= 2 THEN <<op[2]>> ELSE <<>>,
                 IF Len(op) >= 3 THEN <<op[3]>> ELSE <<>> >>]

ExpAtom(name) == <<"prim", name, <<>> >>

ExpTerm(t) ==
    IF t.g THEN <<"func", ExpAtom(t.a), ExpDirection(t.op), ExpAtom(t.b)>>
    ELSE ExpAtom(t.a)

RECURSIVE ExpFold(_, _)
\* ((t0 op1 t1) op2 t2) ... opn tn, for the first n terms of the chain
ExpFold(c, n) ==
    IF n = 1 THEN ExpTerm(c.terms[1])
    ELSE <<"func", ExpFold(c, n - 1), ExpDirection(c.ops[n - 1]), ExpTerm(c.terms[n])>>

\* C1: the category of a chain t0 op1 t1 ... opn tn of declared primitives and
\* parenthesized groups is its left fold ((t0 op1 t1) op2 t2) ... opn tn: A/B/C has
\* result A/B and argument C, A/(B/C) has result A and argument B/C.
C1_LeftAssociative ==
    (mode = "fn" /\ out.fn = "augParseCategory" /\ items # NoItems) =>
        /\ out.ok
        /\ Tree(out.heap, out.cat) = ExpFold(items, Len(items.terms))

\* A/B/C-like and A/(B/C)-like chains have been parsed
C1_Witness_Chain3 ==
    /\ mode = "fn" /\ out.fn = "augParseCategory" /\ out.ok
    /\ Len(items.terms) = 3
    /\ ~items.terms[1].g /\ ~items.terms[2].g /\ ~items.terms[3].g
    /\ out.heap[out.cat].k = "func"
    /\ out.heap[out.heap[out.cat].res].k = "func"
    /\ out.heap[out.heap[out.cat].arg].k = "prim"

----------------------------------------------------------------------------
(* The parser step by step: a stack of matchBrackets and augParseCategory    *)
(* frames, one action per statement                                          *)

\* longest category string parsed step by step
MaxParseLen == 5

ParseAlphabet == {"(", ")", "/", "A"}

\* the primitives declared for the strings; AA is a name that is not declared
ParsePrimitives == << <<"A">> >>

ParseInputs == UNION {[1..n -> ParseAlphabet] : n \in 0..MaxParseLen}

\* what a step of the parser leaves alone
parseFrame == <<mode, src, primitives, families, entries, status, error, start,
                last, built, ret, inp, items, out>>

\* matchBrackets(string) called: lines 103-104
MBFrame(string) ==
    [fn |-> "matchBrackets", pc |-> "while", string |-> string, inside |-> <<"(">>,
     rest |-> From(string, 1), var |-> 0, res |-> 0, dir |-> NoDir, phase |-> 0]

\* augParseCategory(line, primitives, families, var) called
APFrame(line, var) ==
    [fn |-> "augParseCategory", pc |-> "next", string |-> line, inside |-> <<>>,
     rest |-> line, var |-> var, res |-> 0, dir |-> NoDir, phase |-> 1]

Top == stack[Len(stack)]

Running(fn, pc) == mode = "parse" /\ stack # <<>> /\ Top.fn = fn /\ Top.pc = pc

\* the frame on top goes on as frame f
Goto(f) == stack' = [stack EXCEPT ![Len(stack)] = f]

\* the frame on top calls: it waits at pc, the callee's frame f is pushed
Call(pc, f) == stack' = Append([stack EXCEPT ![Len(stack)].pc = pc], f)

\* the frame on top returns r to its caller
Return(r) == stack' = SubSeq(stack, 1, Len(stack) - 1) /\ retval' = r

\* the frame on top raises: no frame catches, the whole call ends
Raise(err) ==
    /\ stack' = <<>>
    /\ retval' = [NoOut EXCEPT !.fn = Top.fn, !.ok = FALSE, !.err = err]

ParseInit ==
    /\ mode = "parse"
    /\ BuildIdle
    /\ items = NoItems /\ out = NoOut
    /\ inp \in ParseInputs
    /\ stack = <<APFrame(inp, 0)>>
    /\ retval = NoOut

\* line 106: the loop of matchBrackets goes on
MBLooping == Top.rest # <<>> /\ ~StartsWith(Top.rest, <<")">>)

\* lines 110-112: an ordinary character moves from rest to inside
MBScan ==
    /\ Running("matchBrackets", "while")
    /\ MBLooping /\ ~StartsWith(Top.rest, <<"(">>)
    /\ Goto([Top EXCEPT !.inside = @ \o <<Top.rest[1]>>, !.rest = From(@, 1)])
    /\ UNCHANGED <<parseFrame, heap, retval>>

\* line 108: a nested "(" is matched by a recursive call
MBCall ==
    /\ Running("matchBrackets", "while")
    /\ MBLooping /\ StartsWith(Top.rest, <<"(">>)
    /\ Call("await", MBFrame(Top.rest))
    /\ UNCHANGED <<parseFrame, heap, retval>>

\* lines 108-109: (part, rest) = the call's result; inside = inside + part
MBResume ==
    /\ Running("matchBrackets", "await")
    /\ Goto([Top EXCEPT !.pc = "while", !.inside = @ \o retval.inside, !.rest = retval.rest])
    /\ UNCHANGED <<parseFrame, heap, retval>>

\* lines 113-114
MBReturn ==
    /\ Running("matchBrackets", "while")
    /\ ~MBLooping /\ StartsWith(Top.rest, <<")">>)
    /\ Return([NoOut EXCEPT !.fn = "matchBrackets", !.ok = TRUE,
                            !.inside = Top.inside \o <<")">>, !.rest = From(Top.rest, 1)])
    /\ UNCHANGED <<parseFrame, heap>>

\* line 115
MBRaise ==
    /\ Running("matchBrackets", "while")
    /\ ~MBLooping /\ ~StartsWith(Top.rest, <<")">>)
    /\ Raise(UnmatchedBracket)
    /\ UNCHANGED <<parseFrame, heap>>

\* lines 183 and 199, nextCategory line 124: the next term starts with "("
APNextBracket ==
    /\ Running("augParseCategory", "next")
    /\ StartsWith(Top.rest, <<"(">>)
    /\ Call("awaitNext", MBFrame(Top.rest))
    /\ UNCHANGED <<parseFrame, heap, retval>>

\* lines 183 and 199: (cat_string, rest) = what matchBrackets returned
APNextResume ==
    /\ Running("augParseCategory", "awaitNext")
    /\ Goto([Top EXCEPT !.pc = "term", !.inside = retval.inside, !.rest = retval.rest])
    /\ UNCHANGED <<parseFrame, heap, retval>>

\* lines 183 and 199, nextCategory line 125: the next term is a primitive
APNextPrim ==
    /\ Running("augParseCategory", "next")
    /\ ~StartsWith(Top.rest, <<"(">>)
    /\ NEXTPRIM_RE(Top.rest).matched
    /\ Goto([Top EXCEPT !.pc = "term", !.inside = NEXTPRIM_RE(Top.rest).groups[1],
                        !.rest = NEXTPRIM_RE(Top.rest).groups[2]])
    /\ UNCHANGED <<parseFrame, heap, retval>>

\* nextCategory line 125: NEXTPRIM_RE does not match
APNextRaise ==
    /\ Running("augParseCategory", "next")
    /\ ~StartsWith(Top.rest, <<"(">>)
    /\ ~NEXTPRIM_RE(Top.rest).matched
    /\ Raise(NoMatch)
    /\ UNCHANGED <<parseFrame, heap>>

\* APTermGroup with a bug: the parentheses are not taken off
APTermGroupWhole ==
    /\ Running("augParseCategory", "term")
    /\ StartsWith(Top.inside, <<"(">>)
    /\ Call("awaitTerm", APFrame(Top.inside, Top.var))
    /\ UNCHANGED <<parseFrame, heap, retval>>

\* lines 186 and 201: the term is a group, parsed by a recursive call
APTermGroup ==
    /\ Running("augParseCategory", "term")
    /\ StartsWith(Top.inside, <<"(">>)
    /\ Call("awaitTerm", APFrame(SubSeq(Top.inside, 2, Len(Top.inside) - 1), Top.var))
    /\ UNCHANGED <<parseFrame, heap, retval>>

\* the frame on top, with the term's category cat and the binding var: the term is
\* the result (lines 186, 190) or the argument of a new FunctionalCategory (line 206)
WithTerm(cat, var, h) ==
    IF Top.phase = 1
    THEN [frame |-> [Top EXCEPT !.pc = "while", !.res = cat, !.var = var], heap |-> h]
    ELSE LET f == FunctionalCategory(h, Top.res, cat, Top.dir)
         IN  [frame |-> [Top EXCEPT !.pc = "while", !.res = f.ref, !.var = var],
              heap |-> f.heap]

\* lines 186 and 201, 206: (res, var) or (arg, var) = what the recursive call returned
APTermResume ==
    /\ Running("augParseCategory", "awaitTerm")
    /\ LET w == WithTerm(retval.cat, retval.var, heap)
       IN  Goto(w.frame) /\ heap' = w.heap
    /\ UNCHANGED <<parseFrame, retval>>

\* lines 190-192 and 203-206: the term is a primitive, a family or `var`
APTermPrim ==
    /\ Running("augParseCategory", "term")
    /\ ~StartsWith(Top.inside, <<"(">>)
    /\ LET p == parsePrimitiveCategory(PRIM_RE(Top.inside).groups, ParsePrimitives,
                                       <<>>, Top.var, heap)
       IN  /\ p.ok
           /\ LET w == WithTerm(p.cat, p.var, p.heap)
              IN  Goto(w.frame) /\ heap' = w.heap
    /\ UNCHANGED <<parseFrame, retval>>

\* line 168: the name is neither a family nor a primitive
APTermRaise ==
    /\ Running("augParseCategory", "term")
    /\ ~StartsWith(Top.inside, <<"(">>)
    /\ LET p == parsePrimitiveCategory(PRIM_RE(Top.inside).groups, ParsePrimitives,
                                       <<>>, Top.var, heap)
       IN  ~p.ok /\ Raise(p.err)
    /\ UNCHANGED <<parseFrame, heap>>

\* lines 194-197: an application operator is taken off the rest
APOperator ==
    /\ Running("augParseCategory", "while")
    /\ Top.rest # <<>>
    /\ APP_RE(Top.rest).matched
    /\ Goto([Top EXCEPT !.pc = "next", !.phase = 2,
                        !.dir = parseApplication(SubSeq(APP_RE(Top.rest).groups, 1, 3)),
                        !.rest = APP_RE(Top.rest).groups[4]])
    /\ UNCHANGED <<parseFrame, heap, retval>>

\* line 195: APP_RE does not match
APOperatorRaise ==
    /\ Running("augParseCategory", "while")
    /\ Top.rest # <<>>
    /\ ~APP_RE(Top.rest).matched
    /\ Raise(NoMatch)
    /\ UNCHANGED <<parseFrame, heap>>

\* line 208
APReturn ==
    /\ Running("augParseCategory", "while")
    /\ Top.rest = <<>>
    /\ Return([NoOut EXCEPT !.fn = "augParseCategory", !.ok = TRUE,
                            !.cat = Top.res, !.var = Top.var])
    /\ UNCHANGED <<parseFrame, heap>>

ParseNext ==
    \/ MBScan \/ MBCall \/ MBResume \/ MBReturn \/ MBRaise
    \/ APNextBracket \/ APNextResume \/ APNextPrim \/ APNextRaise
    \/ APTermGroup \/ APTermResume \/ APTermPrim \/ APTermRaise
    \/ APOperator \/ APOperatorRaise \/ APReturn

\* the interpreter runs the call to its end: a step that can be taken is taken
SpecParse == ParseInit /\ [][ParseNext]_vars /\ WF_vars(ParseNext)

----------------------------------------------------------------------------
(* C10: parsing terminates *)

\* the call has returned a category or raised
C10_Done == mode = "parse" /\ stack = <<>> /\ retval.fn # ""

\* C10, one step: a recursive call is on a strictly shorter string, any call on a
\* string no longer than the caller's, and a step of a loop never lengthens the
\* rest of its frame: taking a character, a matched group, a term or an operator off
\* it strictly shortens it
C10_Shortens ==
    (mode = "parse" /\ stack # <<>> /\ stack' # <<>>) =>
        LET new == stack'[Len(stack')] IN
        /\ Len(stack') = Len(stack) + 1 =>
              /\ Len(new.string) <= Len(Top.string)
              /\ new.fn = Top.fn => Len(new.string) < Len(Top.string)
        /\ Len(stack') = Len(stack) =>
              /\ Len(new.rest) <= Len(Top.rest)
              /\ Top.pc \in {"await", "awaitNext"} => Len(new.rest) < Len(Top.rest)
              /\ (Top.pc \in {"while", "next"} /\ new.pc # "while") =>
                    Len(new.rest) < Len(Top.rest)
              /\ (Top.fn = "matchBrackets" /\ Top.pc = "while") =>
                    Len(new.rest) < Len(Top.rest)
        /\ Len(stack') = Len(stack) - 1 =>
              Len(retval'.rest) <= Len(new.rest)

\* C10: for every category string augParseCategory, with matchBrackets and
\* nextCategory, ends: it returns a category or raises. Each step of the operator loop
\* and of the bracket scan shortens the rest of the input, and each recursive call is
\* on a strictly shorter string.
C10_ParsingTerminates == [][C10_Shortens]_vars /\ <>C10_Done

\* a call that needed two nested recursive calls has returned a category
C10_Witness_Nested ==
    /\ C10_Done /\ retval.ok
    /\ Len(inp) = MaxParseLen
    /\ inp[1] = "(" /\ inp[2] = "("

====
